---- MODULE Spec2Model ----
(***************************************************************************)
(* The bird router (routes/open/birds): five Express handlers, each one    *)
(* parameterized statement against the Birds table of the shipped schema.  *)
(* A request is followed from arrival through the validation middleware,   *)
(* the synchronous part of its handler, the statement's execution at the   *)
(* store and the then/catch callback that answers it.  Several requests    *)
(* are in flight at once; the store executes one statement at a time.      *)
(***************************************************************************)
EXTENDS Integers, Sequences, FiniteSets, Bags, TLC

\* ------------------------------------------------------------------ bounds
\* Longest name array a request body carries.
MaxNames == 2

\* The clients whose requests are in flight together; each sends one request.
Clients == {"c1", "c2"}

\* The formatted common names (keys) requests name.
Names == {"AmericanRobin", "BlueJay"}

\* The keys the bulk import may have loaded: those, and one no request names.
SeedNames == Names \cup {"NorthernCardinal"}

\* ------------------------------------------------------------------ values
\* A body field that is absent reads as undefined; a column without a value
\* holds NULL.  Both are kept apart from every text value.
Undefined == "<undefined>"
Null == "<null>"

\* Text a request body supplies for a field, and text the bulk import put
\* in the table.
NewText == "new"
SeedText == "seed"

\* Array-typed body fields: absent, or an array of names.
JsUndefined == [t |-> "undefined"]
JsArray(items) == [t |-> "array", items |-> items]
IsArray(v) == v.t = "array"

\* String(v) as template literals and + apply it.
JsString(v) == IF v = Undefined THEN "undefined"
               ELSE IF v = Null THEN "null" ELSE v

\* The driver sends an undefined parameter as NULL.
PgParam(v) == IF v = Undefined THEN Null ELSE v

Range(s) == {s[i] : i \in DOMAIN s}

RECURSIVE Join(_, _)
Join(parts, sep) ==
    IF parts = <<>> THEN ""
    ELSE IF Len(parts) = 1 THEN parts[1]
    ELSE parts[1] \o sep \o Join(Tail(parts), sep)

\* names.map((_, i) => `$${i + 1}`).join(',')
Placeholders(names) ==
    Join([i \in 1..Len(names) |-> "$" \o ToString(i)], ",")

\* ------------------------------------------------------------------ schema
PutColumns ==
    << "Com_Name", "Sci_Name", "Preview_Photo", "Male_Breeding_Photo",
       "Male_Nonbreeding_Photo", "Female_Photo", "Sound", "Short_Desc",
       "Long_Desc", "How_To_Find", "Habitat", "Learn_More_Link" >>

PostColumns == <<"Formatted_Com_Name">> \o PutColumns

\* CREATE TABLE Birds: twelve columns, none of them Habitat.
BirdsSchema ==
    [ columns    |-> { "Formatted_Com_Name", "Com_Name", "Sci_Name",
                       "Preview_Photo", "Male_Breeding_Photo",
                       "Male_Nonbreeding_Photo", "Female_Photo", "Sound",
                       "Short_Desc", "Long_Desc", "How_To_Find",
                       "Learn_More_Link" },
      primaryKey |-> {"Formatted_Com_Name"},
      notNull    |-> {"Formatted_Com_Name", "Com_Name"} ]

KeyColumn == "Formatted_Com_Name"

\* A row the bulk import (COPY birds FROM ...) loaded for key k.
SeedRow(k) ==
    [c \in BirdsSchema.columns |->
        IF c = KeyColumn THEN k ELSE SeedText]

\* The tables the import can leave behind: one row per imported key.
SeedTables == {SetToBag({SeedRow(k) : k \in S}) : S \in SUBSET SeedNames}

Keys(tbl) == {r[KeyColumn] : r \in BagToSet(tbl)}

Restrict(tbl, rows) == [r \in rows |-> tbl[r]]

\* ------------------------------------------------------------------ bodies
\* A Bird body: the key, the common name, and one value for the other
\* eleven fields.
Bird(k, c, o) ==
    [ formattedComName     |-> k,
      comName              |-> c,
      sciName              |-> o,
      previewPhoto         |-> o,
      maleBreedingPhoto    |-> o,
      maleNonbreedingPhoto |-> o,
      femalePhoto          |-> o,
      sound                |-> o,
      shortDesc            |-> o,
      longDesc             |-> o,
      howToFind            |-> o,
      habitat              |-> o,
      learnMoreLink        |-> o ]

BirdFields == DOMAIN Bird(Undefined, Undefined, Undefined)

BirdBodies ==
    { Bird(k, c, o) : k \in Names \cup {Undefined},
                      c \in {NewText, Undefined},
                      o \in {NewText} }

WellFormed(body) == \A f \in BirdFields : body[f] # Undefined

NameLists == UNION {[1..n -> Names] : n \in 0..MaxNames}

NameArrays == {JsArray(l) : l \in NameLists}

GetBodies ==
    { [birds |-> b, birdNames |-> n] :
        b \in {JsUndefined, JsArray(<<"AmericanRobin">>)},
        n \in {JsUndefined} \cup NameArrays }

DeleteBodies == {[names |-> n] : n \in {JsUndefined} \cup NameArrays}

NoBody == [none |-> TRUE]
NoKey == ""

Requests ==
    {[method |-> "GET", path |-> "/all", key |-> NoKey, body |-> NoBody]}
    \cup {[method |-> "GET", path |-> "/", key |-> NoKey, body |-> b] :
             b \in GetBodies}
    \cup {[method |-> "PUT", path |-> "/:formattedComName", key |-> k,
           body |-> b] : k \in Names, b \in BirdBodies}
    \cup {[method |-> "POST", path |-> "/", key |-> NoKey, body |-> b] :
             b \in BirdBodies}
    \cup {[method |-> "DELETE", path |-> "/", key |-> NoKey, body |-> b] :
             b \in DeleteBodies}

\* -------------------------------------------------------------- statements
\* 'SELECT * FROM Birds'
GetAllStatement == [op |-> "SELECT_ALL"]

\* `SELECT * FROM Birds WHERE Formatted_Com_Name IN (${placeholders});`
GetStatement(birdNames) ==
    [ op          |-> "SELECT_IN",
      whereColumn |-> KeyColumn,
      inList      |-> Placeholders(birdNames),
      params      |-> birdNames ]

\* A handler that assigns the key column from the body as well (and leaves
\* Habitat alone).
PutStatementSetsKey(birdName, body) ==
    [ op          |-> "UPDATE",
      columns     |-> << "Formatted_Com_Name", "Com_Name", "Sci_Name",
                         "Preview_Photo", "Male_Breeding_Photo",
                         "Male_Nonbreeding_Photo", "Female_Photo", "Sound",
                         "Short_Desc", "Long_Desc", "How_To_Find",
                         "Learn_More_Link" >>,
      whereColumn |-> KeyColumn,
      params      |-> << body.formattedComName, body.comName, body.sciName,
                         body.previewPhoto, body.maleBreedingPhoto,
                         body.maleNonbreedingPhoto, body.femalePhoto,
                         body.sound, body.shortDesc, body.longDesc,
                         body.howToFind, body.learnMoreLink, birdName >> ]

\* UPDATE birds SET Com_Name = $1, ..., Learn_More_Link = $12
\*     WHERE Formatted_Com_Name = $13 RETURNING *;
PutStatement(birdName, body) ==
    [ op          |-> "UPDATE",
      columns     |-> PutColumns,
      whereColumn |-> KeyColumn,
      params      |-> << body.comName, body.sciName, body.previewPhoto,
                         body.maleBreedingPhoto, body.maleNonbreedingPhoto,
                         body.femalePhoto, body.sound, body.shortDesc,
                         body.longDesc, body.howToFind, body.habitat,
                         body.learnMoreLink, birdName >> ]

\* INSERT INTO birds (Formatted_Com_Name, ..., Learn_More_Link)
\*     VALUES ($1, ..., $13) RETURNING *;
PostStatement(body) ==
    [ op      |-> "INSERT",
      columns |-> PostColumns,
      params  |-> << body.formattedComName, body.comName, body.sciName,
                     body.previewPhoto, body.maleBreedingPhoto,
                     body.maleNonbreedingPhoto, body.femalePhoto, body.sound,
                     body.shortDesc, body.longDesc, body.howToFind,
                     body.habitat, body.learnMoreLink >> ]

\* A handler that binds only the first name.
DeleteStatementFirstName(birdNames) ==
    [ op          |-> "DELETE_IN",
      whereColumn |-> KeyColumn,
      inList      |-> Placeholders(birdNames),
      params      |-> IF birdNames = <<>> THEN <<>> ELSE <<birdNames[1]>> ]

\* `DELETE FROM Birds WHERE Formatted_Com_Name IN (${placeholders});`
DeleteStatement(birdNames) ==
    [ op          |-> "DELETE_IN",
      whereColumn |-> KeyColumn,
      inList      |-> Placeholders(birdNames),
      params      |-> birdNames ]

\* ------------------------------------------------------------------- store
\* What pool.query settles with: a result (rowCount, rows) or an error
\* carrying the driver's detail string (undefined for errors without one).
Fulfilled(tbl, n, rows) ==
    [ table  |-> tbl,
      result |-> [ok |-> TRUE, rowCount |-> n, rows |-> rows,
                  detail |-> Undefined] ]

Rejected(tbl, detail) ==
    [ table  |-> tbl,
      result |-> [ok |-> FALSE, rowCount |-> 0, rows |-> EmptyBag,
                  detail |-> detail] ]

UniqueDetail(k) == "Key (formatted_com_name)=(" \o k \o ") already exists."
NotNullDetail == "Failing row contains (...)."

RECURSIVE Copies(_, _)
Copies(tbl, rows) ==
    IF rows = {} THEN 0
    ELSE LET r == CHOOSE x \in rows : TRUE
         IN  tbl[r] + Copies(tbl, rows \ {r})

\* Rows whose whereColumn equals one of the bound values (NULL equals
\* nothing).
Matching(tbl, col, values) ==
    {r \in DOMAIN tbl : r[col] # Null /\ r[col] \in {PgParam(v) : v \in values}}

ParamOf(stmt, c) ==
    PgParam(stmt.params[CHOOSE i \in DOMAIN stmt.columns : stmt.columns[i] = c])

\* Some key value is held by more than one row.
DuplicateKey(tbl, schema) ==
    /\ schema.primaryKey # {}
    /\ \E r \in DOMAIN tbl :
          Copies(tbl, {q \in DOMAIN tbl :
                         \A c \in schema.primaryKey : q[c] = r[c]}) > 1

ExecSelectAll(tbl) == Fulfilled(tbl, BagCardinality(tbl), tbl)

\* An empty IN () list is a syntax error.
ExecSelectIn(stmt, tbl, schema) ==
    IF stmt.inList = "" \/ stmt.whereColumn \notin schema.columns
    THEN Rejected(tbl, Undefined)
    ELSE LET hit  == Matching(tbl, stmt.whereColumn, Range(stmt.params))
             rows == Restrict(tbl, hit)
         IN  Fulfilled(tbl, BagCardinality(rows), rows)

ExecDeleteIn(stmt, tbl, schema) ==
    IF stmt.inList = "" \/ stmt.whereColumn \notin schema.columns
    THEN Rejected(tbl, Undefined)
    ELSE LET hit == Matching(tbl, stmt.whereColumn, Range(stmt.params))
         IN  Fulfilled(Restrict(tbl, DOMAIN tbl \ hit),
                       BagCardinality(Restrict(tbl, hit)), EmptyBag)

\* A column the table does not have fails the statement before any row is
\* looked at; then NOT NULL, then the primary key.
ExecInsert(stmt, tbl, schema) ==
    IF ~(Range(stmt.columns) \subseteq schema.columns)
    THEN Rejected(tbl, Undefined)
    ELSE LET row == [c \in schema.columns |->
                       IF c \in Range(stmt.columns) THEN ParamOf(stmt, c)
                       ELSE Null]
             new == tbl (+) SetToBag({row})
         IN  IF \E c \in schema.notNull : row[c] = Null
             THEN Rejected(tbl, NotNullDetail)
             ELSE IF DuplicateKey(new, schema)
             THEN Rejected(tbl, UniqueDetail(row[KeyColumn]))
             ELSE Fulfilled(new, 1, SetToBag({row}))

ExecUpdate(stmt, tbl, schema) ==
    IF ~(Range(stmt.columns) \cup {stmt.whereColumn} \subseteq schema.columns)
    THEN Rejected(tbl, Undefined)
    ELSE LET hit == Matching(tbl, stmt.whereColumn,
                             {stmt.params[Len(stmt.columns) + 1]})
             New(r) == [c \in schema.columns |->
                          IF c \in Range(stmt.columns) THEN ParamOf(stmt, c)
                          ELSE r[c]]
             updated == [n \in {New(r) : r \in hit} |->
                           Copies(tbl, {r \in hit : New(r) = n})]
             new == Restrict(tbl, DOMAIN tbl \ hit) (+) updated
         IN  IF hit = {} THEN Fulfilled(tbl, 0, EmptyBag)
             ELSE IF \E r \in hit, c \in schema.notNull : New(r)[c] = Null
             THEN Rejected(tbl, NotNullDetail)
             ELSE IF DuplicateKey(new, schema)
             THEN Rejected(tbl, UniqueDetail(
                     ParamOf(stmt, CHOOSE c \in schema.primaryKey : TRUE)))
             ELSE Fulfilled(new, BagCardinality(updated), updated)

\* pool.query(theQuery, params) against the Birds table.
Exec(stmt, tbl) ==
    CASE stmt.op = "SELECT_ALL" -> ExecSelectAll(tbl)
      [] stmt.op = "SELECT_IN"  -> ExecSelectIn(stmt, tbl, BirdsSchema)
      [] stmt.op = "DELETE_IN"  -> ExecDeleteIn(stmt, tbl, BirdsSchema)
      [] stmt.op = "INSERT"     -> ExecInsert(stmt, tbl, BirdsSchema)
      [] stmt.op = "UPDATE"     -> ExecUpdate(stmt, tbl, BirdsSchema)

\* --------------------------------------------------------------- responses
Send(status, body) == [status |-> status, by |-> "handler", body |-> body]

\* mwValidBirdsBody's else branch
InvalidBirds ==
    [ status |-> 400, by |-> "mwValidBirdsBody",
      body   |-> [message |->
        "Invalid or missing Bird - please refer to documentation"] ]

\* .catch((err) => response.status(400).send({message: 'Error: ' + err.detail}))
QueryError(res) == Send(400, [message |-> "Error: " \o JsString(res.detail)])

FirstRow(rows) == CHOOSE r \in BagToSet(rows) : TRUE

GetAllResponse(res) ==
    IF res.ok
    THEN IF res.rowCount >= 1
         THEN Send(200, [rows |-> res.rows])
         ELSE Send(404, [message |-> "No birds were found in the database"])
    ELSE Send(500, [message |-> "server error - contact support"])

GetByNamesResponse(res) ==
    IF res.ok THEN Send(200, [rows |-> res.rows]) ELSE QueryError(res)

PutResponse(res) ==
    IF res.ok
    THEN IF res.rowCount > 0
         THEN Send(200, [row |-> FirstRow(res.rows)])
         ELSE Send(404, [message |-> "No bird found with the provided name."])
    ELSE QueryError(res)

\* A catch branch that answers like GET /all's.
PostResponseServerError(res) ==
    IF res.ok
    THEN Send(200, [row |-> FirstRow(res.rows)])
    ELSE Send(500, [message |-> "server error - contact support"])

PostResponse(res) ==
    IF res.ok THEN Send(200, [row |-> FirstRow(res.rows)]) ELSE QueryError(res)

\* A then branch that needs more than one deleted row to report success.
DeleteResponseOffByOne(res, birdNames) ==
    IF res.ok
    THEN IF res.rowCount > 1
         THEN Send(200, [message |-> ToString(res.rowCount)
                                       \o " bird(s) deleted successfully.",
                         birdNames |-> birdNames])
         ELSE Send(404, [message |-> "No birds found with the provided names.",
                         birdNames |-> birdNames])
    ELSE QueryError(res)

DeleteResponse(res, birdNames) ==
    IF res.ok
    THEN IF res.rowCount > 0
         THEN Send(200, [message |-> ToString(res.rowCount)
                                       \o " bird(s) deleted successfully.",
                         birdNames |-> birdNames])
         ELSE Send(404, [message |-> "No birds found with the provided names.",
                         birdNames |-> birdNames])
    ELSE QueryError(res)

\* ------------------------------------------------------------------- state
VARIABLES
    table,      \* the Birds table: a bag of rows
    pc,         \* where each client's request is
    req,        \* the request each client sent
    stmt,       \* the statement its handler handed to pool.query
    result,     \* what pool.query settled with
    resp,       \* the response sent
    before,     \* the table as the client's statement found it
    after,      \* the table as the client's statement left it
    prior,      \* the clients already answered when this request arrived
    executed    \* the clients in the order their statements ran

vars == <<table, pc, req, stmt, result, resp, before, after, prior, executed>>

NoRequest == [none |-> TRUE, method |-> "", path |-> ""]
NoStatement == [op |-> ""]
NoResult == [none |-> TRUE]
NoResponse == [status |-> 0, by |-> "", body |-> NoBody]

Init ==
    /\ table \in SeedTables
    /\ pc = [c \in Clients |-> "idle"]
    /\ req = [c \in Clients |-> NoRequest]
    /\ stmt = [c \in Clients |-> NoStatement]
    /\ result = [c \in Clients |-> NoResult]
    /\ resp = [c \in Clients |-> NoResponse]
    /\ before = [c \in Clients |-> EmptyBag]
    /\ after = [c \in Clients |-> EmptyBag]
    /\ prior = [c \in Clients |-> {}]
    /\ executed = <<>>

Ended(c) == pc[c] \in {"done", "thrown"}

Routed(c, method, path) ==
    /\ pc[c] = "handler"
    /\ req[c].method = method
    /\ req[c].path = path

\* A request arrives; GET / passes through mwValidBirdsBody first.
Receive(c) ==
    /\ pc[c] = "idle"
    /\ \E r \in Requests :
          /\ req' = [req EXCEPT ![c] = r]
          /\ pc' = [pc EXCEPT ![c] =
                      IF r.method = "GET" /\ r.path = "/" THEN "mw"
                      ELSE "handler"]
    /\ prior' = [prior EXCEPT ![c] = {d \in Clients : Ended(d)}]
    /\ UNCHANGED <<table, stmt, result, resp, before, after, executed>>

mwValidBirdsBody(c) ==
    /\ pc[c] = "mw"
    /\ IF IsArray(req[c].body.birds)
       THEN /\ pc' = [pc EXCEPT ![c] = "handler"]
            /\ UNCHANGED resp
       ELSE /\ pc' = [pc EXCEPT ![c] = "done"]
            /\ resp' = [resp EXCEPT ![c] = InvalidBirds]
    /\ UNCHANGED <<table, req, stmt, result, before, after, prior, executed>>

\* The synchronous part of a handler: pool.query is called with theStatement,
\* or (ok false) the handler throws before reaching it.
Handle(c, ok, theStatement) ==
    /\ IF ok
       THEN /\ stmt' = [stmt EXCEPT ![c] = theStatement]
            /\ pc' = [pc EXCEPT ![c] = "query"]
       ELSE /\ pc' = [pc EXCEPT ![c] = "thrown"]
            /\ UNCHANGED stmt
    /\ UNCHANGED <<table, req, result, resp, before, after, prior, executed>>

GetAll(c) ==
    /\ Routed(c, "GET", "/all")
    /\ Handle(c, TRUE, GetAllStatement)

\* birdNames.map throws a TypeError when body.birdNames is not an array.
GetByNames(c) ==
    /\ Routed(c, "GET", "/")
    /\ LET birdNames == req[c].body.birdNames
       IN  Handle(c, IsArray(birdNames),
                  IF IsArray(birdNames) THEN GetStatement(birdNames.items)
                  ELSE NoStatement)

Put(c) ==
    /\ Routed(c, "PUT", "/:formattedComName")
    /\ Handle(c, TRUE, PutStatement(req[c].key, req[c].body))

Post(c) ==
    /\ Routed(c, "POST", "/")
    /\ Handle(c, TRUE, PostStatement(req[c].body))

\* birdNames.map throws a TypeError when body.names is not an array.
Delete(c) ==
    /\ Routed(c, "DELETE", "/")
    /\ LET birdNames == req[c].body.names
       IN  Handle(c, IsArray(birdNames),
                  IF IsArray(birdNames) THEN DeleteStatement(birdNames.items)
                  ELSE NoStatement)

\* The store runs one client's statement, atomically.
PoolQuery(c) ==
    /\ pc[c] = "query"
    /\ LET out == Exec(stmt[c], table)
       IN  /\ table' = out.table
           /\ result' = [result EXCEPT ![c] = out.result]
           /\ after' = [after EXCEPT ![c] = out.table]
    /\ before' = [before EXCEPT ![c] = table]
    /\ executed' = Append(executed, c)
    /\ pc' = [pc EXCEPT ![c] = "settled"]
    /\ UNCHANGED <<req, stmt, resp, prior>>

Settled(c, method, path) ==
    /\ pc[c] = "settled"
    /\ req[c].method = method
    /\ req[c].path = path

Respond(c, response) ==
    /\ resp' = [resp EXCEPT ![c] = response]
    /\ pc' = [pc EXCEPT ![c] = "done"]
    /\ UNCHANGED <<table, req, stmt, result, before, after, prior, executed>>

GetAllSettled(c) ==
    /\ Settled(c, "GET", "/all")
    /\ Respond(c, GetAllResponse(result[c]))

GetByNamesSettled(c) ==
    /\ Settled(c, "GET", "/")
    /\ Respond(c, GetByNamesResponse(result[c]))

PutSettled(c) ==
    /\ Settled(c, "PUT", "/:formattedComName")
    /\ Respond(c, PutResponse(result[c]))

PostSettled(c) ==
    /\ Settled(c, "POST", "/")
    /\ Respond(c, PostResponse(result[c]))

DeleteSettled(c) ==
    /\ Settled(c, "DELETE", "/")
    /\ Respond(c, DeleteResponse(result[c], req[c].body.names.items))

Next ==
    \E c \in Clients :
        \/ Receive(c)
        \/ mwValidBirdsBody(c)
        \/ GetAll(c)
        \/ GetByNames(c)
        \/ Put(c)
        \/ Post(c)
        \/ Delete(c)
        \/ PoolQuery(c)
        \/ GetAllSettled(c)
        \/ GetByNamesSettled(c)
        \/ PutSettled(c)
        \/ PostSettled(c)
        \/ DeleteSettled(c)

Spec == Init /\ [][Next]_vars

\* ================================================================== claims
Done(c) == pc[c] = "done"
Ran(c) == pc[c] \in {"settled", "done"}
IsReq(c, method, path) == req[c].method = method /\ req[c].path = path

\* The column each body field is bound to by the INSERT.
BirdColumn ==
    [ formattedComName     |-> "Formatted_Com_Name",
      comName              |-> "Com_Name",
      sciName              |-> "Sci_Name",
      previewPhoto         |-> "Preview_Photo",
      maleBreedingPhoto    |-> "Male_Breeding_Photo",
      maleNonbreedingPhoto |-> "Male_Nonbreeding_Photo",
      femalePhoto          |-> "Female_Photo",
      sound                |-> "Sound",
      shortDesc            |-> "Short_Desc",
      longDesc             |-> "Long_Desc",
      howToFind            |-> "How_To_Find",
      habitat              |-> "Habitat",
      learnMoreLink        |-> "Learn_More_Link" ]

RowEqualsBird(row, body) ==
    \A f \in BirdFields :
        /\ BirdColumn[f] \in DOMAIN row
        /\ row[BirdColumn[f]] = body[f]

RowsWithKeyIn(tbl, keys) == {r \in DOMAIN tbl : r[KeyColumn] \in keys}

Position(c) == CHOOSE i \in DOMAIN executed : executed[i] = c

\* The clients whose statements ran after c's and before d's.
Between(c, d) ==
    {e \in Clients : Ran(e) /\ Position(c) < Position(e)
                            /\ Position(e) < Position(d)}

\* e's request names key k as a row to create, update or delete.
Touches(e, k) ==
    \/ IsReq(e, "POST", "/") /\ req[e].body.formattedComName = k
    \/ IsReq(e, "PUT", "/:formattedComName") /\ req[e].key = k
    \/ /\ IsReq(e, "DELETE", "/")
       /\ IsArray(req[e].body.names)
       /\ k \in Range(req[e].body.names.items)

\* C1: a well-formed Bird posted under a key the table does not hold is
\* answered 200 with the inserted row, and a later GET / naming its key is
\* answered 200 with exactly one row, equal to the posted record in every
\* field, habitat included.
CreateLookupRoundTrip ==
    \A c \in Clients :
        ( /\ IsReq(c, "POST", "/")
          /\ WellFormed(req[c].body)
          /\ Done(c)
          /\ req[c].body.formattedComName \notin Keys(before[c]) )
        => /\ resp[c].status = 200
           /\ RowEqualsBird(resp[c].body.row, req[c].body)
           /\ \A d \in Clients :
                 ( /\ IsReq(d, "GET", "/")
                   /\ c \in prior[d]
                   /\ req[d].body.birdNames
                        = JsArray(<<req[c].body.formattedComName>>)
                   /\ Done(d) )
                 => /\ resp[d].status = 200
                    /\ BagCardinality(resp[d].body.rows) = 1
                    /\ RowEqualsBird(FirstRow(resp[d].body.rows),
                                     req[c].body)

\* C2: a GET / whose body is {birdNames: [...]} is answered 200 with exactly
\* the stored rows whose keys are in the list.
LookupByNames ==
    \A c \in Clients :
        ( /\ IsReq(c, "GET", "/")
          /\ req[c].body.birds = JsUndefined
          /\ IsArray(req[c].body.birdNames)
          /\ pc[c] \in {"done", "thrown"} )
        => /\ Done(c)
           /\ resp[c].status = 200
           /\ resp[c].body.rows
                = Restrict(before[c],
                     RowsWithKeyIn(before[c],
                                   Range(req[c].body.birdNames.items)))

\* C3: a PUT whose path key is no stored row's key is answered 404 with
\* 'No bird found with the provided name.' and leaves the table as it was.
UpdateMissingKey ==
    \A c \in Clients :
        ( /\ IsReq(c, "PUT", "/:formattedComName")
          /\ Done(c)
          /\ req[c].key \notin Keys(before[c]) )
        => /\ resp[c].status = 404
           /\ resp[c].body.message = "No bird found with the provided name."
           /\ after[c] = before[c]

DeletesOnly(c, k) ==
    /\ IsReq(c, "DELETE", "/")
    /\ req[c].body.names = JsArray(<<k>>)

\* d's DELETE of k was sent after c's was answered, and no statement that
\* ran in between names k.
DeletedTwice(c, d, k) ==
    /\ c # d
    /\ DeletesOnly(c, k)
    /\ DeletesOnly(d, k)
    /\ c \in prior[d]
    /\ k \in Keys(before[c])
    /\ Done(d)
    /\ \A e \in Between(c, d) : ~Touches(e, k)

\* C4: DELETE / {names:[k]} twice in sequence, k present before the first:
\* the first is answered 200 '1 bird(s) deleted successfully.', the second
\* 404 with the fixed message and the same echoed list, and the second
\* leaves the table as the first left it.
DeleteIdempotent ==
    \A c, d \in Clients : \A k \in Names :
        DeletedTwice(c, d, k)
        => /\ resp[c] = Send(200, [message |-> "1 bird(s) deleted successfully.",
                                   birdNames |-> <<k>>])
           /\ resp[d] = Send(404, [message |->
                                     "No birds found with the provided names.",
                                   birdNames |-> <<k>>])
           /\ after[d] = before[d]
           /\ Between(c, d) = {} => after[d] = after[c]

DeleteIdempotentWitness ==
    \E c, d \in Clients : \E k \in Names :
        DeletedTwice(c, d, k) /\ Keys(after[d]) # {}

\* A DELETE whose names array has at least one entry and at least one
\* stored key, answered.
DeletedSome(c) ==
    /\ IsReq(c, "DELETE", "/")
    /\ Done(c)
    /\ IsArray(req[c].body.names)
    /\ Len(req[c].body.names.items) >= 1
    /\ Range(req[c].body.names.items) \cap Keys(before[c]) # {}

\* What the claim says of such a DELETE with M rows counted.
DeleteOutcome(c, M) ==
    LET birdNames == req[c].body.names.items
    IN  /\ after[c] = Restrict(before[c],
                        DOMAIN before[c]
                          \ RowsWithKeyIn(before[c], Range(birdNames)))
        /\ resp[c] = Send(200, [message |-> ToString(M)
                                   \o " bird(s) deleted successfully.",
                                birdNames |-> birdNames])

DuplicateCreateRejected ==
    \A c \in Clients :
        ( /\ IsReq(c, "POST", "/")
          /\ Done(c)
          /\ req[c].body.formattedComName \in Keys(before[c]) )
        => /\ resp[c].status = 400
           /\ ~result[c].ok
           /\ resp[c].body.message = "Error: " \o JsString(result[c].detail)
           /\ after[c] = before[c]

DuplicateCreateWitness ==
    \E c \in Clients :
        /\ IsReq(c, "POST", "/")
        /\ Done(c)
        /\ WellFormed(req[c].body)
        /\ req[c].body.formattedComName \in Keys(before[c])

\* C7: a GET / that passes validation and whose name array is empty is
\* answered 200 with no rows, its statement not rejected by the store.
EmptyLookup ==
    \A c \in Clients :
        ( /\ IsReq(c, "GET", "/")
          /\ IsArray(req[c].body.birds)
          /\ req[c].body.birdNames = JsArray(<<>>)
          /\ Done(c) )
        => /\ result[c].ok
           /\ resp[c] = Send(200, [rows |-> EmptyBag])

\* C8: a GET / that validation passes on reaches the handler with an array
\* of names to map; one whose validated field is no array is answered 400
\* with the fixed message and issues no statement.
ValidationGates ==
    \A c \in Clients :
        IsReq(c, "GET", "/")
        => /\ pc[c] \notin {"idle", "mw"} /\ IsArray(req[c].body.birds)
              => IsArray(req[c].body.birdNames)
           /\ pc[c] \notin {"idle", "mw"} /\ ~IsArray(req[c].body.birds)
              => /\ Done(c)
                 /\ resp[c] = InvalidBirds
                 /\ stmt[c] = NoStatement

\* C9: every request ends in one response sent by its own handler (or its
\* validation middleware) with status 200, 400, 404 or 500; nothing is
\* thrown past the handler.
FailuresStayInside ==
    \A c \in Clients :
        /\ pc[c] # "thrown"
        /\ Done(c) => /\ resp[c].status \in {200, 400, 404, 500}
                      /\ resp[c].by \in {"handler", "mwValidBirdsBody"}

====
